---------------------------- MODULE Spec2Model ----------------------------
(***************************************************************************)
(* A model of fullerite's NerveUWSGI collector                             *)
(* (src/src/fullerite/collector/nerve_uwsgi.go): the schema dispatch, the  *)
(* fixed-schema parsers, the default parser with its Dropwizard flattener  *)
(* and the per-service workers of one collection cycle.                    *)
(*                                                                         *)
(* Strings are TLA+ strings; a metric name is built with \o exactly where  *)
(* the code concatenates or joins.  A []metric.Metric is a bag: the code   *)
(* fills it while ranging over Go maps, whose iteration order is random,   *)
(* so every order of the same bag is a possible slice.                     *)
(***************************************************************************)
EXTENDS Naturals, Sequences, FiniteSets, Bags, TLC

(***************************************************************************)
(* Bounds of the model.                                                    *)
(***************************************************************************)
\* the most rollup cells (category, entry, rollup, value) of a generated document
MaxCells == 2
\* the most single-key mappings nested around a generated Dropwizard tree
MaxSpine == 3
\* the most collection cycles of a run
MaxCycles == 1

(***************************************************************************)
(* State.  Three specifications share the module: Spec is the collection   *)
(* cycles of the collector, SpecParse one dispatch of a response to its    *)
(* parser, SpecFlat one run of the flattener.  Each leaves the variables   *)
(* of the others at rest.                                                  *)
(***************************************************************************)
VARIABLES
    \* Spec
    collect,      \* Collect: its place, the services it has yet to start
    workers,      \* the queryService goroutines started so far
    received,     \* the metrics a consumer has taken from the channel
    crashed,      \* a goroutine panicked: the process is gone
    \* SpecParse
    schema,       \* the schema identifier queryEndpoint returned
    rawBody,      \* the body it returned
    whitelisted,  \* n.serviceInWhitelist(serviceName)
    outcome,      \* what schemaMap[schema] made of rawBody
    \* SpecFlat
    tree,         \* the argument of parseNestedMetricMaps
    flat          \* its results, queue and heap

cvars == <<collect, workers, received, crashed>>
pvars == <<schema, rawBody, whitelisted, outcome>>
fvars == <<tree, flat>>
vars == <<collect, workers, received, crashed, schema, rawBody, whitelisted, outcome,
          tree, flat>>

(***************************************************************************)
(* Strings.                                                                *)
(***************************************************************************)
Char(s, i) == SubSeq(s, i, i)

Digits == {"0", "1", "2", "3", "4", "5", "6", "7", "8", "9"}

\* regexp.MatchString("m[0-9]+_rate", s): the pattern is not anchored, so it
\* matches when any substring of s has the form m<digits>_rate.
MatchRateAnchored(s) ==
    /\ Len(s) >= 7
    /\ Char(s, 1) = "m"
    /\ SubSeq(s, Len(s) - 4, Len(s)) = "_rate"
    /\ \A k \in 2..(Len(s) - 5) : Char(s, k) \in Digits

MatchRate(s) ==
    \E i \in 1..Len(s) : \E j \in (i + 1)..Len(s) :
        /\ j + 5 <= Len(s)
        /\ Char(s, i) = "m"
        /\ \A k \in (i + 1)..j : Char(s, k) \in Digits
        /\ SubSeq(s, j + 1, j + 5) = "_rate"

\* the index of the first sep in s, 0 when there is none
IndexOf(s, sep) ==
    IF \E i \in 1..Len(s) : Char(s, i) = sep
    THEN CHOOSE i \in 1..Len(s) :
            /\ Char(s, i) = sep
            /\ \A k \in 1..(i - 1) : Char(s, k) # sep
    ELSE 0

\* strings.Split(s, sep) for a one-character separator
RECURSIVE Split(_, _)
Split(s, sep) ==
    LET i == IndexOf(s, sep) IN
    IF i = 0 THEN <<s>>
    ELSE <<SubSeq(s, 1, i - 1)>> \o Split(SubSeq(s, i + 1, Len(s)), sep)

\* strings.Join(segs, sep)
RECURSIVE Join(_, _)
Join(segs, sep) ==
    IF Len(segs) = 0 THEN ""
    ELSE IF Len(segs) = 1 THEN segs[1]
    ELSE segs[1] \o sep \o Join(Tail(segs), sep)


(***************************************************************************)
(* JSON values as encoding/json decodes them into interface{}: a number    *)
(* (always float64), a string, a boolean or a map[string]interface{}.      *)
(* A raw body is the value it holds, or Malformed when it is not JSON.     *)
(***************************************************************************)
Num(v) == [t |-> "num", v |-> v]
Str(s) == [t |-> "str", s |-> s]
Bool(b) == [t |-> "bool", b |-> b]
Map(m) == [t |-> "map", m |-> m]
Malformed == [t |-> "bad"]
EmptyMap == [k \in {} |-> Malformed]

IsMap(v) == v.t = "map"
IsMapOfMaps(v) == IsMap(v) /\ \A k \in DOMAIN v.m : IsMap(v.m[k])

(***************************************************************************)
(* The metric package (not among the sources): a metric is a name, a       *)
(* type, a value and a dimension map; AddDimension sets one key, AddToAll  *)
(* sets the given dimensions on every metric of a slice.                   *)
(***************************************************************************)
Gauge == "gauge"
Counter == "counter"
CumulativeCounter == "cumcounter"

NoDims == [k \in {} |-> ""]

New(name) == [name |-> name, mtype |-> Gauge, value |-> 0, dims |-> NoDims]

AddDimension(m, k, v) == [m EXCEPT !.dims = (k :> v) @@ @]

AddDimensions(m, dims) == [m EXCEPT !.dims = dims @@ @]

\* the sum of the bags f[k], k in S
RECURSIVE BagSumOver(_, _)
BagSumOver(f, S) ==
    IF S = {} THEN EmptyBag
    ELSE LET k == CHOOSE k \in S : TRUE
         IN  f[k] (+) BagSumOver(f, S \ {k})

AddToAll(metrics, dims) ==
    BagSumOver([m \in BagToSet(metrics) |->
                   [x \in {AddDimensions(m, dims)} |-> metrics[m]]],
               BagToSet(metrics))

(***************************************************************************)
(* json.Unmarshal of the raw body into a uwsgiJSONFormat1X: an error      *)
(* when the body is not JSON, is not an object, or holds one of the six    *)
(* fields with a value of another shape than the field's type; keys the    *)
(* struct does not name are ignored, absent fields stay empty.             *)
(***************************************************************************)
Categories == {"gauges", "counters", "histograms", "meters", "timers"}

Unmarshal1X(raw) ==
    LET bad == \/ ~IsMap(raw)
               \/ \E c \in Categories \cap DOMAIN raw.m : ~IsMapOfMaps(raw.m[c])
               \/ /\ "service_dims" \in DOMAIN raw.m
                  /\ ~IsMap(raw.m["service_dims"])
        field(k) == IF k \in DOMAIN raw.m THEN raw.m[k].m ELSE EmptyMap
    IN  IF bad THEN [err |-> TRUE]
        ELSE [err |-> FALSE,
              ServiceDims |-> field("service_dims"),
              Counters |-> [e \in DOMAIN field("counters") |-> field("counters")[e].m],
              Gauges |-> [e \in DOMAIN field("gauges") |-> field("gauges")[e].m],
              Histograms |-> [e \in DOMAIN field("histograms") |-> field("histograms")[e].m],
              Meters |-> [e \in DOMAIN field("meters") |-> field("meters")[e].m],
              Timers |-> [e \in DOMAIN field("timers") |-> field("timers")[e].m]]

(***************************************************************************)
(* The fixed-schema parsers.  A parser's outcome is ok with its metrics,   *)
(* err (the error it returns) or panic (a Go run-time panic).              *)
(***************************************************************************)
Ok(metrics) == [st |-> "ok", metrics |-> metrics]
NotParsed == [st |-> "none", metrics |-> EmptyBag]
Err == [st |-> "err", metrics |-> EmptyBag]
Panic == [st |-> "panic", metrics |-> EmptyBag]

createMetricFromDatamNoFilter(rollup, value, metricName, metricType, cumulCounterEnabled) ==
    LET m0 == [New(metricName) EXCEPT !.mtype = metricType]
        m1 == IF ~cumulCounterEnabled THEN AddDimension(m0, "rollup", rollup) ELSE m0
    IN  [m |-> [m1 EXCEPT !.value = IF value.t = "num" THEN value.v ELSE 0], ok |-> TRUE]

createMetricFromDatam(rollup, value, metricName, metricType, cumulCounterEnabled) ==
    LET m0 == [New(metricName) EXCEPT !.mtype = metricType]
        m1 == IF ~cumulCounterEnabled THEN AddDimension(m0, "rollup", rollup) ELSE m0
    IN  IF value.t = "num"
        THEN [m |-> [m1 EXCEPT !.value = value.v], ok |-> TRUE]
        ELSE [m |-> m1, ok |-> FALSE]

\* one pass of the loop of metricFromMap: the metrics rollup adds to results
metricFromRollup(metricMap, rollup, metricName, metricType, cumulCounterEnabled) ==
    LET matched == MatchRate(rollup)
        suffixed == cumulCounterEnabled /\ rollup # "value"
        mName == IF suffixed THEN metricName \o "." \o rollup ELSE metricName
        mType == IF suffixed /\ rollup = "count" THEN CumulativeCounter ELSE metricType
        res == createMetricFromDatam(rollup, metricMap[rollup], mName, mType,
                                     cumulCounterEnabled)
    IN  IF cumulCounterEnabled /\ matched THEN EmptyBag
        ELSE IF res.ok THEN SetToBag({res.m})
        ELSE EmptyBag

metricFromMap(metricMap, metricName, metricType, cumulCounterEnabled) ==
    BagSumOver([rollup \in DOMAIN metricMap |->
                   metricFromRollup(metricMap, rollup, metricName, metricType,
                                    cumulCounterEnabled)],
               DOMAIN metricMap)

convertToMetrics(metricMap, metricType, cumulCounterEnabled) ==
    BagSumOver([metricName \in DOMAIN metricMap |->
                   metricFromMap(metricMap[metricName], metricName, metricType,
                                 cumulCounterEnabled)],
               DOMAIN metricMap)

\* the closure appendIt of getParsedMetrics and parseJavaMetrics: what it
\* appends to results
appendIt(metrics, typeDimVal, cumulCounterEnabled) ==
    IF ~cumulCounterEnabled
    THEN AddToAll(metrics, "type" :> typeDimVal)
    ELSE metrics

getParsedMetrics(parsed, cumulCounterEnabled) ==
    appendIt(convertToMetrics(parsed.Gauges, Gauge, cumulCounterEnabled),
             "gauge", cumulCounterEnabled)
    (+) appendIt(convertToMetrics(parsed.Counters, Counter, cumulCounterEnabled),
                 "counter", cumulCounterEnabled)
    (+) appendIt(convertToMetrics(parsed.Histograms, Gauge, cumulCounterEnabled),
                 "histogram", cumulCounterEnabled)
    (+) appendIt(convertToMetrics(parsed.Meters, Gauge, cumulCounterEnabled),
                 "meter", cumulCounterEnabled)
    (+) appendIt(convertToMetrics(parsed.Timers, Gauge, cumulCounterEnabled),
                 "timer", cumulCounterEnabled)

parseUWSGIMetrics10(raw, cumulCounterEnabled) ==
    LET parsed == Unmarshal1X(raw)
    IN  IF parsed.err THEN Err
        ELSE Ok(getParsedMetrics(parsed, cumulCounterEnabled))

\* v.(string) on every value of service_dims: a value of another type panics
parseUWSGIMetrics11(raw, cumulCounterEnabled) ==
    LET parsed == Unmarshal1X(raw)
        results == getParsedMetrics(parsed, cumulCounterEnabled)
        dims == parsed.ServiceDims
    IN  IF parsed.err THEN Err
        ELSE IF \E k \in DOMAIN dims : dims[k].t # "str" THEN Panic
        ELSE Ok(AddToAll(results, [k \in DOMAIN dims |-> dims[k].s]))


\* addDimensionsFromName from segment i on: dimension[1] of a segment with
\* no "=" is an index out of range, a run-time panic
RECURSIVE addDimensionsFrom(_, _, _)
addDimensionsFrom(m, dimensions, i) ==
    IF i > Len(dimensions) THEN [panic |-> FALSE, m |-> m]
    ELSE LET dimension == Split(dimensions[i], "=")
         IN  IF Len(dimension) < 2 THEN [panic |-> TRUE, m |-> m]
             ELSE addDimensionsFrom(AddDimension(m, dimension[1], dimension[2]),
                                    dimensions, i + 1)

\* the segments applied under the dimensions the metric already has
addDimensionsUnderName(m, dimensions) ==
    LET r == addDimensionsFrom(m, dimensions, 2)
    IN  [panic |-> r.panic, m |-> [r.m EXCEPT !.dims = m.dims @@ @]]

addDimensionsFromName(m, dimensions) == addDimensionsFrom(m, dimensions, 2)

\* one pass of the inner loop of convertToJavaMetrics
javaMetricFromRollup(metricData, rollup, values, metricType, cumulCounterEnabled) ==
    LET matched == MatchRate(rollup)
        suffixed == cumulCounterEnabled /\ rollup # "value"
        mName == IF suffixed THEN values[1] \o "." \o rollup ELSE values[1]
        mType == IF suffixed /\ rollup = "count" THEN CumulativeCounter ELSE metricType
        res == createMetricFromDatam(rollup, metricData[rollup], mName, mType,
                                     cumulCounterEnabled)
        dim == addDimensionsFromName(res.m, values)
    IN  IF cumulCounterEnabled /\ matched THEN [panic |-> FALSE, metrics |-> EmptyBag]
        ELSE IF ~res.ok THEN [panic |-> FALSE, metrics |-> EmptyBag]
        ELSE IF dim.panic THEN [panic |-> TRUE, metrics |-> EmptyBag]
        ELSE [panic |-> FALSE, metrics |-> SetToBag({dim.m})]

convertToJavaMetrics(metricMap, metricType, cumulCounterEnabled) ==
    LET one(metricName, rollup) ==
            javaMetricFromRollup(metricMap[metricName], rollup,
                                 Split(metricName, ","), metricType,
                                 cumulCounterEnabled)
        ofEntry(metricName) ==
            BagSumOver([rollup \in DOMAIN metricMap[metricName] |->
                           one(metricName, rollup).metrics],
                       DOMAIN metricMap[metricName])
    IN  [panic |-> \E metricName \in DOMAIN metricMap :
                       \E rollup \in DOMAIN metricMap[metricName] :
                           one(metricName, rollup).panic,
         metrics |-> BagSumOver([metricName \in DOMAIN metricMap |-> ofEntry(metricName)],
                                DOMAIN metricMap)]

parseJavaMetrics(raw, cumulCounterEnabled) ==
    LET parsed == Unmarshal1X(raw)
        gauges == convertToJavaMetrics(parsed.Gauges, Gauge, cumulCounterEnabled)
        counters == convertToJavaMetrics(parsed.Counters, Counter, cumulCounterEnabled)
        histograms == convertToJavaMetrics(parsed.Histograms, Gauge, cumulCounterEnabled)
        meters == convertToJavaMetrics(parsed.Meters, Gauge, cumulCounterEnabled)
        timers == convertToJavaMetrics(parsed.Timers, Gauge, cumulCounterEnabled)
    IN  IF parsed.err THEN Err
        ELSE IF \/ gauges.panic \/ counters.panic \/ histograms.panic
                \/ meters.panic \/ timers.panic
        THEN Panic
        ELSE Ok(appendIt(gauges.metrics, "gauge", cumulCounterEnabled)
                (+) appendIt(counters.metrics, "counter", cumulCounterEnabled)
                (+) appendIt(histograms.metrics, "histogram", cumulCounterEnabled)
                (+) appendIt(meters.metrics, "meter", cumulCounterEnabled)
                (+) appendIt(timers.metrics, "timer", cumulCounterEnabled))


(***************************************************************************)
(* Go slices of strings.  A slice is a window (arr, len, cap) on a backing *)
(* array of the heap; arr = 0 is the empty slice []string{}.  append       *)
(* writes in place when len < cap, so two slices appended from one slice   *)
(* with spare capacity share the cell they wrote; otherwise it copies into *)
(* a new array whose capacity the run time doubles (1 for an empty one).   *)
(***************************************************************************)
EmptySlice == [arr |-> 0, len |-> 0, cap |-> 0]

Elems(heap, s) == IF s.arr = 0 THEN <<>> ELSE SubSeq(heap[s.arr], 1, s.len)

growslice(cap) == IF cap = 0 THEN 1 ELSE 2 * cap

append(heap, s, k) ==
    IF s.len < s.cap
    THEN [heap |-> [heap EXCEPT ![s.arr][s.len + 1] = k],
          slice |-> [s EXCEPT !.len = s.len + 1]]
    ELSE LET newcap == growslice(s.cap)
             arr == [i \in 1..newcap |->
                        IF i <= s.len THEN heap[s.arr][i]
                        ELSE IF i = s.len + 1 THEN k ELSE ""]
         IN  [heap |-> Append(heap, arr),
              slice |-> [arr |-> Len(heap) + 1, len |-> s.len + 1, cap |-> newcap]]

(***************************************************************************)
(* The Dropwizard flattener.                                               *)
(***************************************************************************)
MetricTypeCounter == "COUNTER"
MetricTypeGauge == "GAUGE"

Has(jsonMap, k) == k \in DOMAIN jsonMap
IsStr(v, s) == v.t = "str" /\ v.s = s

collectGauge(jsonMap, metricName, metricType) ==
    IF Has(jsonMap, "value")
    THEN metricFromMap(jsonMap, Join(metricName, "."), metricType, FALSE)
    ELSE EmptyBag

\* the loop shared by collectHistogram, collectRate and collectMeter: one
\* metric per numeric key outside skip, COUNTER for count and GAUGE otherwise
collectKeys(jsonMap, metricName, skip) ==
    BagSumOver([key \in DOMAIN jsonMap |->
                   LET metricType == IF key = "count" THEN MetricTypeCounter
                                     ELSE MetricTypeGauge
                       res == createMetricFromDatam(key, jsonMap[key],
                                                    Join(metricName, "."),
                                                    metricType, FALSE)
                   IN  IF key \in skip \/ ~res.ok THEN EmptyBag
                       ELSE SetToBag({res.m})],
               DOMAIN jsonMap)

collectHistogram(jsonMap, metricName, metricType) ==
    IF Has(jsonMap, "count") THEN collectKeys(jsonMap, metricName, {"type"})
    ELSE EmptyBag

collectCounter(jsonMap, metricName, metricType) ==
    IF Has(jsonMap, "count")
    THEN metricFromMap(jsonMap, Join(metricName, "."), metricType, FALSE)
    ELSE EmptyBag

collectRate(jsonMap, metricName) ==
    IF /\ Has(jsonMap, "unit")
       /\ \/ IsStr(jsonMap["unit"], "seconds")
          \/ IsStr(jsonMap["unit"], "milliseconds")
    THEN collectKeys(jsonMap, metricName, {"unit"})
    ELSE EmptyBag

checkForMeterUnits(jsonMap) ==
    /\ Has(jsonMap, "event_type")
    /\ Has(jsonMap, "unit")
    /\ \/ IsStr(jsonMap["unit"], "seconds")
       \/ IsStr(jsonMap["unit"], "milliseconds")
       \/ IsStr(jsonMap["unit"], "minutes")

collectMeter(jsonMap, metricName) ==
    IF checkForMeterUnits(jsonMap)
    THEN collectKeys(jsonMap, metricName, {"unit", "event_type", "type"})
    ELSE EmptyBag

\* t.(string) on the type field: a value that is no string panics
parseFlattenedMetricMap(jsonMap, metricName) ==
    LET t == jsonMap["type"]
        found(metrics) == [panic |-> FALSE, metrics |-> metrics]
    IN  IF Has(jsonMap, "type") /\ t.t # "str"
        THEN [panic |-> TRUE, metrics |-> EmptyBag]
        ELSE IF Has(jsonMap, "type") /\ t.s = "gauge"
        THEN found(collectGauge(jsonMap, metricName, "gauge"))
        ELSE IF Has(jsonMap, "type") /\ t.s = "histogram"
        THEN found(collectHistogram(jsonMap, metricName, "histogram"))
        ELSE IF Has(jsonMap, "type") /\ t.s = "counter"
        THEN found(collectCounter(jsonMap, metricName, "counter"))
        ELSE IF Has(jsonMap, "type") /\ t.s = "meter"
        THEN found(collectMeter(jsonMap, metricName))
        ELSE found(collectRate(jsonMap, metricName))

\* extractGaugeValue: its append(metricName, key) acts on the heap too
extractGaugeValue(heap, key, value, metricName) ==
    LET a == append(heap, metricName, key)
        compositeMetricName == Join(Elems(a.heap, a.slice), ".")
    IN  [heap |-> a.heap,
         res |-> createMetricFromDatam("value", value, compositeMetricName,
                                       "GAUGE", FALSE)]

(***************************************************************************)
(* parseNestedMetricMaps.  Its state is the results, the queue             *)
(* unvisitedMetricMaps and the heap holding the metricSegments arrays;     *)
(* panicked records a run-time panic.  A node of the queue is              *)
(* [seg |-> slice, map |-> function].                                      *)
(***************************************************************************)
StartState(jsonMap) ==
    [results |-> EmptyBag,
     queue |-> <<[seg |-> EmptySlice, map |-> jsonMap]>>,
     heap |-> <<>>,
     panicked |-> FALSE]

\* one pass of nodeVisitorLoop for key k of the node being visited
VisitKey(st, node, k) ==
    LET v == node.map[k]
        a == append(st.heap, node.seg, k)
        temp == parseFlattenedMetricMap(node.map, Elems(st.heap, node.seg))
        g == extractGaugeValue(st.heap, k, v, node.seg)
    IN  IF IsMap(v)
        THEN [brk |-> FALSE,
              st |-> [st EXCEPT !.heap = a.heap,
                                !.queue = Append(@, [seg |-> a.slice, map |-> v.m])]]
        ELSE IF temp.panic
        THEN [brk |-> TRUE, st |-> [st EXCEPT !.panicked = TRUE]]
        ELSE IF BagCardinality(temp.metrics) > 0
        THEN [brk |-> TRUE, st |-> [st EXCEPT !.results = @ (+) temp.metrics]]
        ELSE [brk |-> FALSE,
              st |-> [st EXCEPT !.heap = g.heap,
                                !.results = IF g.res.ok THEN @ (+) SetToBag({g.res.m})
                                            ELSE @]]

\* nodeVisitorLoop from the i-th key of order on
RECURSIVE VisitKeys(_, _, _, _)
VisitKeys(st, node, order, i) ==
    IF i > Len(order) THEN st
    ELSE LET r == VisitKey(st, node, order[i])
         IN  IF r.brk THEN r.st ELSE VisitKeys(r.st, node, order, i + 1)

\* the orders in which a range over a map with these keys can visit them
Orders(keys) ==
    {o \in [1..Cardinality(keys) -> keys] : \A i, j \in DOMAIN o : o[i] = o[j] => i = j}

\* one pass of the outer loop: the head of the queue is visited in order
VisitNode(st, order) ==
    VisitKeys([st EXCEPT !.queue = Tail(@)], Head(st.queue), order, 1)

\* the outcomes of the loop from state st, over every visiting order
RECURSIVE FlattenOutcomes(_)
FlattenOutcomes(st) ==
    IF st.panicked THEN {Panic}
    ELSE IF st.queue = <<>> THEN {Ok(st.results)}
    ELSE UNION {FlattenOutcomes(VisitNode(st, o)) :
                    o \in Orders(DOMAIN Head(st.queue).map)}

parseNestedMetricMaps(jsonMap) == FlattenOutcomes(StartState(jsonMap))

parseDropwizardMetrics(raw) ==
    IF ~IsMap(raw) THEN {Err} ELSE parseNestedMetricMaps(raw.m)

\* the uwsgi.1.0 parse alone, without the fallback
parseDefaultNoFallback(raw, cumulCounterEnabled) ==
    {parseUWSGIMetrics10(raw, cumulCounterEnabled)}

parseDefault(raw, cumulCounterEnabled) ==
    LET r == parseUWSGIMetrics10(raw, cumulCounterEnabled)
    IN  IF r.st = "err" THEN {r}
        ELSE IF BagCardinality(r.metrics) = 0 THEN parseDropwizardMetrics(raw)
        ELSE {r}

(***************************************************************************)
(* schemaMap and its use in queryService: the outcomes of                  *)
(* schemaMap[schemaVer](&rawResponse, cumul).  A key the map does not hold *)
(* yields the nil function, and calling it panics.                         *)
(***************************************************************************)
SchemaKeys == {"uwsgi.1.0", "uwsgi.1.1", "java-1.1", "default"}

schemaMap(schemaVer, raw, cumulCounterEnabled) ==
    IF schemaVer = "uwsgi.1.0" THEN {parseUWSGIMetrics10(raw, cumulCounterEnabled)}
    ELSE IF schemaVer = "uwsgi.1.1" THEN {parseUWSGIMetrics11(raw, cumulCounterEnabled)}
    ELSE IF schemaVer = "java-1.1" THEN {parseJavaMetrics(raw, cumulCounterEnabled)}
    ELSE IF schemaVer = "default" THEN parseDefault(raw, cumulCounterEnabled)
    ELSE {Panic}


(***************************************************************************)
(* Dropwizard trees: a node of sub-mappings and scalars over nodes of      *)
(* scalars, nested in at most MaxSpine single-key mappings.                *)
(***************************************************************************)
\* the functions that map each key of some subset of DOMAIN choices to one
\* of the values choices allows it
PartialMaps(choices) ==
    UNION {{f \in [K -> UNION {choices[k] : k \in K}] : \A k \in K : f[k] \in choices[k]} :
              K \in SUBSET DOMAIN choices}

LeafNodes ==
    PartialMaps([count |-> {Num(5), Str("n/a")},
                 type |-> {Str("counter"), Str("bogus"), Num(5)},
                 unit |-> {Str("seconds")}])
    \cup {("value" :> Num(5)) @@ ("type" :> Str("gauge")),
          ("count" :> Num(5)) @@ ("max" :> Num(5)) @@ ("type" :> Str("histogram")),
          ("count" :> Num(5)) @@ ("m1" :> Num(5)) @@ ("unit" :> Str("minutes"))
              @@ ("event_type" :> Str("requests")) @@ ("type" :> Str("meter"))}

SiblingNodes == PartialMaps([count |-> {Num(5)}, type |-> {Str("counter")}])

MidNodes ==
    PartialMaps([x |-> {Map(n) : n \in LeafNodes},
                 y |-> {Num(5)} \cup {Map(n) : n \in SiblingNodes},
                 count |-> {Num(5)},
                 type |-> {Str("counter")}])

SpineKeys == <<"a", "b", "c", "d", "e", "f">>

\* node nested in the mappings keyed SpineKeys[i], ..., SpineKeys[n]
RECURSIVE Nest(_, _, _)
Nest(node, i, n) ==
    IF i > n THEN node ELSE SpineKeys[i] :> Map(Nest(node, i + 1, n))

Trees == {Nest(node, 1, n) : <<node, n>> \in MidNodes \X (0..MaxSpine)}

\* bodies of the untyped form the default parser hands to the flattener
NestedDocs == {Map(Nest(node, 1, 1)) : node \in LeafNodes}

(***************************************************************************)
(* Response bodies.  A document of the fixed schemas is built from at most *)
(* MaxCells rollup cells [c, e, r, v]: category c holds entry e whose      *)
(* rollup r has value v.                                                   *)
(***************************************************************************)
RollupKeys == {"count", "value", "p98", "m1_rate", "sum1_rate"}
RollupValues == {Num(5), Str("n/a")}

\* every category may hold entry a with any rollup; counters and timers
\* may hold a second entry b
PlainCells ==
    [c : Categories, e : {"a"}, r : RollupKeys, v : RollupValues]
    \cup [c : {"counters", "timers"}, e : {"b"}, r : {"count", "p98"}, v : RollupValues]

\* entry keys of the java-1.1 form name,key=value,...; "c,bad" has a
\* segment with no "="
JavaCells ==
    [c : Categories, e : {"reqs,shard=1,env=prod"}, r : {"count", "value", "m1_rate"},
     v : {Num(5)}]
    \cup [c : {"counters", "timers"}, e : {"b,type=x", "e,rollup=x", "c,bad"},
          r : {"count", "p98"}, v : RollupValues]

DimCells == [c : Categories, e : {"a"}, r : {"count", "m1_rate"}, v : RollupValues]

SameRollup(x, y) == x.c = y.c /\ x.e = y.e /\ x.r = y.r

\* the sets of at most n cells of cells that give no rollup two values
RECURSIVE CellSets(_, _)
CellSets(cells, n) ==
    IF n = 0 THEN {{}}
    ELSE LET less == CellSets(cells, n - 1)
         IN  less \cup {S \cup {x} : <<S, x>> \in
                           {p \in less \X cells : \A y \in p[1] : ~SameRollup(p[2], y)}}

DocOf(S) ==
    [c \in {x.c : x \in S} |->
        Map([e \in {x.e : x \in {y \in S : y.c = c}} |->
            Map([r \in {x.r : x \in {y \in S : y.c = c /\ y.e = e}} |->
                (CHOOSE x \in S : x.c = c /\ x.e = e /\ x.r = r).v])])]

ServiceDimsChoices ==
    {EmptyMap,
     "service_dims" :> Map("shard" :> Str("1")),
     "service_dims" :> Map(("shard" :> Str("1")) @@ ("env" :> Str("prod"))),
     "service_dims" :> Map("shard" :> Num(1)),
     "service_dims" :> Map(("shard" :> Str("1")) @@ ("up" :> Bool(TRUE)))}

\* bodies that are no document of the schema: not JSON, or a category
\* that is no mapping of mappings
BadBodies == {Malformed, Map("counters" :> Num(5)), Map("timers" :> Map("a" :> Num(5)))}

PlainDocs == {Map(DocOf(S)) : S \in CellSets(PlainCells, MaxCells)}
JavaDocs == {Map(DocOf(S)) : S \in CellSets(JavaCells, MaxCells)}
DimDocs ==
    {Map(DocOf(S) @@ d) : <<S, d>> \in CellSets(DimCells, MaxCells) \X ServiceDimsChoices}

BodiesFor(schemaVer) ==
    BadBodies \cup
    (IF schemaVer = "java-1.1" THEN JavaDocs
     ELSE IF schemaVer = "uwsgi.1.1" THEN DimDocs
     ELSE IF schemaVer = "uwsgi.1.0" THEN PlainDocs
     ELSE IF schemaVer = "default" THEN PlainDocs \cup NestedDocs
     ELSE {Map(EmptyMap), Map(DocOf({[c |-> "counters", e |-> "a", r |-> "count", v |-> Num(5)]}))})

(***************************************************************************)
(* The parsers on their own: one dispatch of a response (schemaVer,        *)
(* rawResponse) for a service in or out of the whitelist.                  *)
(***************************************************************************)

ParseAtRest ==
    /\ schema = ""
    /\ rawBody = Malformed
    /\ whitelisted = FALSE
    /\ outcome = NotParsed

FlatAtRest ==
    /\ tree = EmptyMap
    /\ flat = [results |-> EmptyBag, queue |-> <<>>, heap |-> <<>>, panicked |-> FALSE]

CycleAtRest ==
    /\ collect = [pc |-> "idle", cycles |-> 0, left |-> {}, reads |-> <<>>]
    /\ workers = <<>>
    /\ received = EmptyBag
    /\ crashed = FALSE

InitParse ==
    /\ schema \in SchemaKeys \cup {"uwsgi.2.0"}
    /\ rawBody \in BodiesFor(schema)
    /\ whitelisted \in BOOLEAN
    /\ outcome = NotParsed
    /\ FlatAtRest
    /\ CycleAtRest

Dispatch ==
    /\ outcome = NotParsed
    /\ outcome' \in schemaMap(schema, rawBody, whitelisted)
    /\ UNCHANGED <<schema, rawBody, whitelisted, fvars, cvars>>

NextParse == Dispatch

SpecParse == InitParse /\ [][NextParse]_vars
(***************************************************************************)
(* parseNestedMetricMaps on its own, one pass of its outer loop a step.    *)
(***************************************************************************)
InitFlat ==
    /\ tree \in Trees
    /\ flat = StartState(tree)
    /\ ParseAtRest
    /\ CycleAtRest

Visit ==
    /\ ~flat.panicked
    /\ flat.queue # <<>>
    /\ \E order \in Orders(DOMAIN Head(flat.queue).map) :
           flat' = VisitNode(flat, order)
    /\ UNCHANGED <<tree, pvars, cvars>>

NextFlat == Visit

SpecFlat == InitFlat /\ [][NextFlat]_vars

(***************************************************************************)
(* The collector.  Configure has put "api" on servicesWhitelist; the nerve *)
(* configuration names up to two services.                                 *)
(***************************************************************************)
servicesWhitelist == <<"api">>

serviceInWhitelist(service) ==
    \E i \in 1..Len(servicesWhitelist) : servicesWhitelist[i] = service

\* what util.ParseNerveConfig can return: port -> service name
ServicePortMaps ==
    {[p \in {} |-> ""], 8080 :> "web", (8080 :> "web") @@ (9090 :> "api")}

DigitStr == <<"0", "1", "2", "3", "4", "5", "6", "7", "8", "9">>

\* the last decimal digit alone
ItoaUnits(n) == DigitStr[(n % 10) + 1]

\* strconv.Itoa for a port
RECURSIVE Itoa(_)
Itoa(n) == IF n < 10 THEN DigitStr[n + 1] ELSE Itoa(n \div 10) \o DigitStr[(n % 10) + 1]

\* What client.Get and ioutil.ReadAll can give queryEndpoint: no response
\* and an error, a response together with an error, a status, and for a
\* 200 the Metrics-Schema header ("" when absent), the body and whether
\* reading it fails.
Response(rsp, err, status, header, body, readErr) ==
    [rsp |-> rsp, err |-> err, status |-> status, header |-> header, body |-> body,
     readErr |-> readErr]

CountOfA == Map("counters" :> Map("a" :> Map("count" :> Num(5))))
TimerOfA == Map("timers" :> Map("a" :> Map(("count" :> Num(5)) @@ ("p98" :> Num(5)))))
BadJavaKey == Map("counters" :> Map("c,bad" :> Map("count" :> Num(5))))
NumericDim ==
    Map(("service_dims" :> Map("shard" :> Num(1)))
        @@ ("counters" :> Map("a" :> Map("count" :> Num(5)))))
NestedOfA == Map("a" :> Map("b" :> Map(("count" :> Num(5)) @@ ("type" :> Str("counter")))))
OwnStampDims ==
    Map(("service_dims" :> Map(("service" :> Str("other")) @@ ("port" :> Str("1"))))
        @@ ("counters" :> Map("a" :> Map("count" :> Num(5)))))
OwnStampKey == Map("counters" :> Map("a,service=other,port=1" :> Map("count" :> Num(5))))

\* the answers of the service on port 8080
WebResponses ==
    {Response(FALSE, TRUE, 0, "", Malformed, FALSE),
     Response(TRUE, FALSE, 500, "", Malformed, FALSE),
     Response(TRUE, FALSE, 200, "uwsgi.1.0", CountOfA, TRUE),
     Response(TRUE, FALSE, 200, "uwsgi.1.0", TimerOfA, FALSE),
     Response(TRUE, FALSE, 200, "uwsgi.1.1", OwnStampDims, FALSE),
     Response(TRUE, FALSE, 200, "uwsgi.2.0", CountOfA, FALSE),
     Response(TRUE, FALSE, 200, "", NestedOfA, FALSE)}

\* the answers of the service on port 9090
ApiResponses ==
    {Response(TRUE, TRUE, 0, "", Malformed, FALSE),
     Response(TRUE, FALSE, 200, "uwsgi.1.0", Malformed, FALSE),
     Response(TRUE, FALSE, 200, "uwsgi.1.1", NumericDim, FALSE),
     Response(TRUE, FALSE, 200, "java-1.1", BadJavaKey, FALSE),
     Response(TRUE, FALSE, 200, "java-1.1", OwnStampKey, FALSE)}

Responses == [p \in {8080, 9090} |-> IF p = 8080 THEN WebResponses ELSE ApiResponses]

\* queryEndpoint: the body is drained and closed by the deferred function,
\* which is registered when rsp is not nil
\* the body released on the successful path alone
queryEndpointCloseAtEnd(r) ==
    LET failed == [err |-> TRUE, schemaVer |-> "", txt |-> Malformed, closed |-> 0]
    IN  IF r.err THEN failed
        ELSE IF r.rsp /\ r.status # 200 THEN failed
        ELSE IF r.readErr THEN failed
        ELSE [err |-> FALSE,
              schemaVer |-> IF r.header = "" THEN "default" ELSE r.header,
              txt |-> r.body,
              closed |-> 1]

queryEndpoint(r) ==
    LET closed == IF r.rsp THEN 1 ELSE 0
        failed == [err |-> TRUE, schemaVer |-> "", txt |-> Malformed, closed |-> closed]
    IN  IF r.err THEN failed
        ELSE IF r.rsp /\ r.status # 200 THEN failed
        ELSE IF r.readErr THEN failed
        ELSE [err |-> FALSE,
              schemaVer |-> IF r.header = "" THEN "default" ELSE r.header,
              txt |-> r.body,
              closed |-> closed]

\* the goroutine go n.queryService(service.Name, port) as it starts
Worker(serviceName, port, cycle) ==
    [serviceName |-> serviceName, port |-> port, cycle |-> cycle, pc |-> "query",
     rsp |-> Response(FALSE, FALSE, 0, "", Malformed, FALSE),
     schemaVer |-> "", rawResponse |-> Malformed, closed |-> 0,
     metrics |-> EmptyBag, log |-> ""]

Init ==
    /\ CycleAtRest
    /\ ParseAtRest
    /\ FlatAtRest

\* Collect going on to its loop whatever the read and the parse gave
CollectReadThenLoop ==
    /\ ~crashed
    /\ collect.pc = "idle"
    /\ collect.cycles < MaxCycles
    /\ \E read \in {"readfail", "parsefail", "ok"} :
       \E servicePortMap \in ServicePortMaps :
           collect' = [pc |-> "loop", cycles |-> collect.cycles + 1,
                       left |-> {<<port, servicePortMap[port]>> :
                                    port \in DOMAIN servicePortMap},
                       reads |-> Append(collect.reads, read)]
    /\ UNCHANGED <<workers, received, crashed, pvars, fvars>>

\* Collect up to its loop: the file is read and parsed, or the cycle ends
\* with a warning
CollectRead ==
    /\ ~crashed
    /\ collect.pc = "idle"
    /\ collect.cycles < MaxCycles
    /\ \E read \in {"readfail", "parsefail", "ok"} :
       \E servicePortMap \in ServicePortMaps :
           collect' = IF read = "ok"
                      THEN [pc |-> "loop", cycles |-> collect.cycles + 1,
                            left |-> {<<port, servicePortMap[port]>> :
                                         port \in DOMAIN servicePortMap},
                            reads |-> Append(collect.reads, read)]
                      ELSE [pc |-> "idle", cycles |-> collect.cycles + 1, left |-> {},
                            reads |-> Append(collect.reads, read)]
    /\ UNCHANGED <<workers, received, crashed, pvars, fvars>>

\* one pass of the loop of Collect: go n.queryService(service.Name, port)
CollectGo ==
    /\ ~crashed
    /\ collect.pc = "loop"
    /\ \E s \in collect.left :
        /\ workers' = Append(workers, Worker(s[2], s[1], collect.cycles))
        /\ collect' = [collect EXCEPT !.left = @ \ {s}]
    /\ UNCHANGED <<received, crashed, pvars, fvars>>

CollectReturn ==
    /\ ~crashed
    /\ collect.pc = "loop"
    /\ collect.left = {}
    /\ collect' = [collect EXCEPT !.pc = "idle"]
    /\ UNCHANGED <<workers, received, crashed, pvars, fvars>>

\* queryService up to the return of queryEndpoint
Query(w) ==
    /\ ~crashed
    /\ workers[w].pc = "query"
    /\ \E r \in Responses[workers[w].port] :
        LET q == queryEndpoint(r)
        IN  workers' = [workers EXCEPT ![w] =
                [@ EXCEPT !.rsp = r,
                          !.closed = q.closed,
                          !.schemaVer = q.schemaVer,
                          !.rawResponse = q.txt,
                          !.log = IF q.err THEN "Failed to query endpoint" ELSE "",
                          !.pc = IF q.err THEN "done" ELSE "parse"]]
    /\ UNCHANGED <<collect, received, crashed, pvars, fvars>>

\* queryService from the dispatch to the first send: a panic of the parser
\* is recovered nowhere and ends the process
Parse(w) ==
    /\ ~crashed
    /\ workers[w].pc = "parse"
    /\ \E o \in schemaMap(workers[w].schemaVer, workers[w].rawResponse,
                          serviceInWhitelist(workers[w].serviceName)) :
        LET metrics == AddToAll(o.metrics,
                                ("service" :> workers[w].serviceName)
                                @@ ("port" :> Itoa(workers[w].port)))
        IN  /\ crashed' = (o.st = "panic")
            /\ workers' = [workers EXCEPT ![w] =
                   IF o.st = "panic" THEN [@ EXCEPT !.pc = "panic"]
                   ELSE IF o.st = "err"
                   THEN [@ EXCEPT !.pc = "done",
                                  !.log = "Failed to parse response into metrics"]
                   ELSE [@ EXCEPT !.metrics = metrics,
                                  !.pc = IF metrics = EmptyBag THEN "done" ELSE "send"]]
    /\ UNCHANGED <<collect, received, pvars, fvars>>

\* one n.Channel() <- m: the channel is unbuffered, so the send and the
\* consumer's receive are one step
Send(w) ==
    /\ ~crashed
    /\ workers[w].pc = "send"
    /\ \E m \in BagToSet(workers[w].metrics) :
        LET rest == workers[w].metrics (-) SetToBag({m})
        IN  /\ received' = received (+) SetToBag({m})
            /\ workers' = [workers EXCEPT ![w] =
                   [@ EXCEPT !.metrics = rest,
                             !.pc = IF rest = EmptyBag THEN "done" ELSE "send"]]
    /\ UNCHANGED <<collect, crashed, pvars, fvars>>

Next ==
    \/ CollectRead
    \/ CollectGo
    \/ CollectReturn
    \/ \E w \in DOMAIN workers : Query(w)
    \/ \E w \in DOMAIN workers : Parse(w)
    \/ \E w \in DOMAIN workers : Send(w)

Spec == Init /\ [][Next]_vars

\* the steps of the workers; a send is the rendezvous of a worker with
\* the consumer of the channel
QueryStep == \E w \in DOMAIN workers : Query(w)
ParseStep == \E w \in DOMAIN workers : Parse(w)
SendStep == \E w \in DOMAIN workers : Send(w)

\* ParseStep can be taken: every parser returns, with a result, an error
\* or a panic
CanParse == ~crashed /\ \E w \in DOMAIN workers : workers[w].pc = "parse"

\* The cycle with a scheduler that runs every goroutine that can run and a
\* consumer that keeps receiving from the channel.  The last conjunct is
\* the weak fairness of ParseStep, with CanParse for ENABLED <<ParseStep>>_vars.
SpecFair ==
    /\ Init
    /\ [][Next]_vars
    /\ WF_vars(CollectGo \/ CollectReturn)
    /\ WF_vars(QueryStep)
    /\ WF_vars(SendStep)
    /\ ([]<>(~CanParse) \/ []<><<ParseStep>>_vars)

\* The cycle with a scheduler that keeps Collect running and promises
\* nothing about the workers or the consumer of the channel, which may
\* never receive.
SpecStalled ==
    /\ Init
    /\ [][Next]_vars
    /\ WF_vars(CollectGo \/ CollectReturn)


(***************************************************************************)
(* What the claims speak of: the rollups of a response body that is a      *)
(* document of the fixed schemas, and the metric each is to yield.         *)
(***************************************************************************)
\* the body is an object whose categories are mappings of mappings
IsDoc(raw) ==
    /\ IsMap(raw)
    /\ \A c \in Categories \cap DOMAIN raw.m : IsMapOfMaps(raw.m[c])
    /\ "service_dims" \in DOMAIN raw.m => IsMap(raw.m["service_dims"])

\* the rollups <<category, entry, rollup>> of a document
Rollups(raw) ==
    UNION {UNION {{<<c, e, r>> : r \in DOMAIN raw.m[c].m[e].m} :
                     e \in DOMAIN raw.m[c].m} :
              c \in Categories \cap DOMAIN raw.m}

ValueOf(raw, x) == raw.m[x[1]].m[x[2]].m[x[3]]

NumericRollups(raw) == {x \in Rollups(raw) : ValueOf(raw, x).t = "num"}

CategoryType(c) == IF c = "counters" THEN Counter ELSE Gauge

CategoryName(c) ==
    IF c = "gauges" THEN "gauge"
    ELSE IF c = "counters" THEN "counter"
    ELSE IF c = "histograms" THEN "histogram"
    ELSE IF c = "meters" THEN "meter"
    ELSE "timer"

Dispatched(schemaVer) == schema = schemaVer /\ outcome.st # "none"

\* C4: the metric of rollup x in default mode
DefaultModeMetric(raw, x) ==
    [name |-> x[2], mtype |-> CategoryType(x[1]), value |-> ValueOf(raw, x).v,
     dims |-> ("rollup" :> x[3]) @@ ("type" :> CategoryName(x[1]))]

\* C4: in default mode the uwsgi.1.0 parser returns, for every document,
\* exactly one metric per rollup with a numeric value and none for any
\* other rollup; the metric is named by the entry key, has the dimensions
\* rollup=<rollup key> and type=<category name>, and is a Counter for the
\* counters category and a Gauge for the other four.
C4_OneMetricPerNumericRollup ==
    (Dispatched("uwsgi.1.0") /\ ~whitelisted /\ IsDoc(rawBody)) =>
        /\ outcome.st = "ok"
        /\ \A x \in NumericRollups(rawBody) :
               CopiesIn(DefaultModeMetric(rawBody, x), outcome.metrics) = 1
        /\ BagCardinality(outcome.metrics) = Cardinality(NumericRollups(rawBody))

\* C4: an entry with a numeric and a non-numeric rollup has been parsed,
\* and the numeric one alone is in the result
C4_Witness ==
    /\ Dispatched("uwsgi.1.0") /\ ~whitelisted /\ IsDoc(rawBody)
    /\ \E x \in NumericRollups(rawBody) :
        /\ \E y \in Rollups(rawBody) \ NumericRollups(rawBody) :
               y[1] = x[1] /\ y[2] = x[2]
        /\ outcome.metrics = SetToBag({DefaultModeMetric(rawBody, x)})


\* the rollup keys of the form m<digits>_rate that occur in a document
RateKeys(raw) == {x[3] : x \in {y \in Rollups(raw) : MatchRateAnchored(y[3])}}

EndsWith(s, suffix) ==
    /\ Len(s) >= Len(suffix)
    /\ SubSeq(s, Len(s) - Len(suffix) + 1, Len(s)) = suffix

\* a metric made from a rollup of key r: its name ends in .r, or r is its
\* rollup dimension
DerivedFrom(m, r) ==
    \/ EndsWith(m.name, "." \o r)
    \/ "rollup" \in DOMAIN m.dims /\ m.dims["rollup"] = r

\* C3: for a service in cumulative-counter mode no metric derived from a
\* rollup whose key is m<digits>_rate is in the result that is sent out,
\* whichever of the four schema identifiers the response is dispatched under.
C3_NoRateMetricWhenCumulative ==
    (schema \in SchemaKeys /\ whitelisted /\ outcome.st = "ok" /\ IsDoc(rawBody)) =>
        \A m \in BagToSet(outcome.metrics) :
            \A r \in RateKeys(rawBody) : ~DerivedFrom(m, r)

\* the entry key, or for the java schema its first comma-separated segment
BaseName(schemaVer, e) == IF schemaVer = "java-1.1" THEN Split(e, ",")[1] ELSE e

\* C5: name and type of the metric of rollup x in cumulative mode
CumulativeName(schemaVer, x) ==
    IF x[3] = "value" THEN BaseName(schemaVer, x[2])
    ELSE BaseName(schemaVer, x[2]) \o "." \o x[3]

CumulativeType(x) == IF x[3] = "count" THEN CumulativeCounter ELSE CategoryType(x[1])

\* the numeric rollups whose key is not of the form m<digits>_rate
NonRateRollups(raw) == {x \in NumericRollups(raw) : ~MatchRateAnchored(x[3])}

\* the number of metrics of a bag with a given name, type and value
CountOf(metrics, name, mtype, value) ==
    BagCardinality([m \in {n \in BagToSet(metrics) :
                             n.name = name /\ n.mtype = mtype /\ n.value = value}
                      |-> CopiesIn(m, metrics)])

\* the dimension keys a document itself asks for: those of service_dims
\* under uwsgi.1.1, those of the segments of the entry keys under java-1.1
PayloadDims(schemaVer, raw) ==
    IF schemaVer = "uwsgi.1.1" /\ "service_dims" \in DOMAIN raw.m
    THEN DOMAIN raw.m["service_dims"].m
    ELSE IF schemaVer = "java-1.1"
    THEN UNION {{Split(Split(x[2], ",")[i], "=")[1] :
                    i \in 2..Len(Split(x[2], ","))} : x \in Rollups(raw)}
    ELSE {}

\* C5: in cumulative mode the fixed-schema parsers return exactly one metric
\* per numeric rollup whose key is not of the form m<digits>_rate; it is
\* named <entry key>.<rollup>, or the entry key alone for the rollup value;
\* it is a CumulativeCounter for the rollup count and has the type of its
\* category otherwise; the parser adds neither a rollup nor a type dimension.
C5_OneMetricPerNonRateRollup ==
    (schema \in {"uwsgi.1.0", "uwsgi.1.1", "java-1.1"} /\ whitelisted
        /\ outcome.st = "ok" /\ IsDoc(rawBody)) =>
        /\ \A x \in NonRateRollups(rawBody) :
               CountOf(outcome.metrics, CumulativeName(schema, x), CumulativeType(x),
                       ValueOf(rawBody, x).v)
                 = Cardinality({y \in NonRateRollups(rawBody) :
                                  /\ CumulativeName(schema, y) = CumulativeName(schema, x)
                                  /\ CumulativeType(y) = CumulativeType(x)
                                  /\ ValueOf(rawBody, y) = ValueOf(rawBody, x)})
        /\ BagCardinality(outcome.metrics) = Cardinality(NonRateRollups(rawBody))
        /\ \A m \in BagToSet(outcome.metrics) :
               DOMAIN m.dims \cap {"rollup", "type"} \subseteq PayloadDims(schema, rawBody)


\* the segments of a java entry key after the first, as dimensions laid over
\* dims in the order of the key
RECURSIVE SegmentDims(_, _, _)
SegmentDims(segments, i, dims) ==
    IF i > Len(segments) THEN dims
    ELSE LET kv == Split(segments[i], "=")
         IN  SegmentDims(segments, i + 1, (kv[1] :> kv[2]) @@ dims)

\* every segment after the first has the form key=value
WellFormedKey(e) ==
    \A i \in 2..Len(Split(e, ",")) : Len(Split(Split(e, ",")[i], "=")) >= 2

\* the rollups of a java document that yield a metric
JavaRollups(raw, cumul) ==
    {x \in NumericRollups(raw) : ~(cumul /\ MatchRate(x[3]))}

\* name, type and value of the java metric of rollup x
JavaMetricOf(raw, x, cumul, dims) ==
    [name |-> IF cumul THEN CumulativeName("java-1.1", x) ELSE Split(x[2], ",")[1],
     mtype |-> IF cumul THEN CumulativeType(x) ELSE CategoryType(x[1]),
     value |-> ValueOf(raw, x).v,
     dims |-> dims]

\* C6 as it was stated: the segments are laid over the rollup and the type
\* dimension
SegmentsLast(raw, x, cumul) ==
    JavaMetricOf(raw, x, cumul,
        SegmentDims(Split(x[2], ","), 2,
            IF cumul THEN NoDims
            ELSE ("type" :> CategoryName(x[1])) @@ ("rollup" :> x[3])))

\* C6 as the code has it: the segments are laid over the rollup dimension,
\* and the type dimension over the segments
TypeLast(raw, x, cumul) ==
    JavaMetricOf(raw, x, cumul,
        IF cumul THEN SegmentDims(Split(x[2], ","), 2, NoDims)
        ELSE ("type" :> CategoryName(x[1]))
                 @@ SegmentDims(Split(x[2], ","), 2, "rollup" :> x[3]))

\* C6 (as stated): under java-1.1 every metric of an entry is named by the
\* first segment of the entry key, and every later segment key=value is a
\* dimension of it, applied after the rollup and the type dimension.
C6_SegmentsAfterRollupAndType ==
    (Dispatched("java-1.1") /\ outcome.st = "ok" /\ IsDoc(rawBody)) =>
        /\ \A x \in JavaRollups(rawBody, whitelisted) :
               CopiesIn(SegmentsLast(rawBody, x, whitelisted), outcome.metrics) >= 1
        /\ \A m \in BagToSet(outcome.metrics) :
               \E x \in JavaRollups(rawBody, whitelisted) :
                   m = SegmentsLast(rawBody, x, whitelisted)

\* C6 (amended): under java-1.1 every metric of an entry is named by the
\* first segment of the entry key (in cumulative mode followed by .<rollup>
\* for a rollup other than value), and every later segment key=value is a
\* dimension of it, applied after the rollup dimension and before the type
\* dimension: a segment rollup=... replaces the rollup key, a segment
\* type=... is replaced by the category name in default mode.
C6_SegmentsBeforeType ==
    (Dispatched("java-1.1") /\ outcome.st = "ok" /\ IsDoc(rawBody)) =>
        /\ \A x \in JavaRollups(rawBody, whitelisted) :
               CopiesIn(TypeLast(rawBody, x, whitelisted), outcome.metrics) >= 1
        /\ \A m \in BagToSet(outcome.metrics) :
               \E x \in JavaRollups(rawBody, whitelisted) :
                   m = TypeLast(rawBody, x, whitelisted)
        /\ BagCardinality(outcome.metrics)
               = Cardinality(JavaRollups(rawBody, whitelisted))

\* C6: a default-mode entry with a segment type=... has been parsed, and
\* its metric carries the category name as type
C6_Witness ==
    /\ Dispatched("java-1.1") /\ outcome.st = "ok" /\ ~whitelisted /\ IsDoc(rawBody)
    /\ \E x \in JavaRollups(rawBody, whitelisted) :
        /\ SegmentDims(Split(x[2], ","), 2, NoDims) = ("type" :> "x")
        /\ \E m \in BagToSet(outcome.metrics) :
               m.name = "b" /\ m.dims["type"] = CategoryName(x[1])

\* C7: under java-1.1 an entry whose key has a segment without '=' is a
\* data error of that entry alone: the parse does not crash, and every
\* rollup of the entries with well-formed keys still has its metric.
C7_MalformedKeyEndsOnlyItsEntry ==
    (Dispatched("java-1.1") /\ IsDoc(rawBody)) =>
        /\ outcome.st # "panic"
        /\ \A x \in JavaRollups(rawBody, whitelisted) :
               WellFormedKey(x[2]) =>
                   CopiesIn(TypeLast(rawBody, x, whitelisted), outcome.metrics) >= 1


\* a JSON scalar as a string
Coerced(j) ==
    IF j.t = "str" THEN j.s
    ELSE IF j.t = "num" THEN Itoa(j.v)
    ELSE IF j.v THEN "true" ELSE "false"

\* C8: under uwsgi.1.1 every key/value pair of service_dims is a dimension
\* of every metric of the document, the value coerced to a string whatever
\* its JSON type; a value that is not a string never makes the parse fail
\* or crash.
C8_ServiceDimsCoerced ==
    (Dispatched("uwsgi.1.1") /\ IsDoc(rawBody)
        /\ "service_dims" \in DOMAIN rawBody.m) =>
        /\ outcome.st = "ok"
        /\ \A m \in BagToSet(outcome.metrics) :
               \A k \in DOMAIN rawBody.m["service_dims"].m :
                   /\ k \in DOMAIN m.dims
                   /\ m.dims[k] = Coerced(rawBody.m["service_dims"].m[k])

\* C9: the default parser returns an error exactly when the uwsgi.1.0 parse
\* of the body errors; when that parse gives at least one metric it returns
\* those metrics unchanged; when it gives none it returns the result of the
\* flattener for the same body, and the flattener works in non-cumulative
\* mode whatever the mode of the service: its metrics carry a rollup
\* dimension and none is a CumulativeCounter.
C9_DefaultIsUwsgi10ThenFlattener ==
    Dispatched("default") =>
        LET first == parseUWSGIMetrics10(rawBody, whitelisted)
        IN  /\ (outcome.st = "err") <=> (first.st = "err")
            /\ (first.st = "ok" /\ BagCardinality(first.metrics) > 0) =>
                   outcome = first
            /\ (first.st = "ok" /\ BagCardinality(first.metrics) = 0) =>
                   /\ outcome \in parseDropwizardMetrics(rawBody)
                   /\ \A m \in BagToSet(outcome.metrics) :
                          /\ "rollup" \in DOMAIN m.dims
                          /\ m.mtype # CumulativeCounter

\* C9: a service in cumulative-counter mode sent a body whose uwsgi.1.0
\* parse gives no metric, and the flattener made metrics of it
C9_Witness ==
    /\ Dispatched("default") /\ whitelisted /\ outcome.st = "ok"
    /\ parseUWSGIMetrics10(rawBody, whitelisted) = Ok(EmptyBag)
    /\ BagCardinality(outcome.metrics) > 0


\* the paths from the root of a tree to its nodes, mappings and leaves
RECURSIVE NodePaths(_, _)
NodePaths(node, path) ==
    {path} \cup UNION {IF IsMap(node[k]) THEN NodePaths(node[k].m, Append(path, k))
                       ELSE {Append(path, k)} : k \in DOMAIN node}

\* C10: at every step of the flattener, every metric extracted so far is
\* named by the keys on the path from the root of the tree to a node of
\* the tree, joined by '.' in order; no segment is dropped, replaced by the
\* key of a sibling, truncated or re-ordered.
C10_NamesArePaths ==
    \A m \in BagToSet(flat.results) :
        \E path \in NodePaths(tree, <<>>) : m.name = Join(path, ".")


\* C1: whatever goes wrong in the worker of one service ends only that
\* worker: a worker whose query and parse succeeded and that still has
\* metrics to send is never stopped by it, the process running the cycle
\* is not aborted.
C1_FailureEndsOnlyItsWorker ==
    \A w \in DOMAIN workers : workers[w].pc = "send" => ~crashed

\* worker w was answered 200 with a Metrics-Schema header that names none of
\* the four schemas, and is past the dispatch
UnknownSchemaSeen(w) ==
    /\ workers[w].pc \notin {"query", "parse"}
    /\ workers[w].log # "Failed to query endpoint"
    /\ workers[w].rsp.status = 200
    /\ workers[w].rsp.header \notin SchemaKeys \cup {""}

\* C2: a 200 response whose Metrics-Schema header names none of uwsgi.1.0,
\* uwsgi.1.1, java-1.1 and default ends the worker of that service with a
\* logged error and no metric; the worker calls no missing parser and does
\* not crash.
C2_UnknownSchemaIsLoggedError ==
    \A w \in DOMAIN workers :
        UnknownSchemaSeen(w) =>
            /\ workers[w].pc = "done"
            /\ workers[w].log # ""
            /\ workers[w].metrics = EmptyBag


\* the decimal form of the ports of the discovery mapping
PortString == (8080 :> "8080") @@ (9090 :> "9090")

\* metric m carries the name and the port of the service of worker w
StampedBy(m, w) ==
    /\ {"service", "port"} \subseteq DOMAIN m.dims
    /\ m.dims["service"] = workers[w].serviceName
    /\ m.dims["port"] = PortString[workers[w].port]

\* C11: every metric received from the output stream carries
\* service=<name> and port=<decimal port> of the service whose response
\* produced it, whatever dimensions the payload gave it, and the stamp is
\* on the metric before it is sent: every metric a worker still holds for
\* sending carries the stamp of that worker.
C11_StampedBeforeSent ==
    /\ \A w \in DOMAIN workers :
           \A m \in BagToSet(workers[w].metrics) : StampedBy(m, w)
    /\ \A m \in BagToSet(received) :
           \E w \in DOMAIN workers :
               workers[w].pc \in {"send", "done"} /\ StampedBy(m, w)

\* C11: a metric of a payload that names a service and a port of its own
\* (in service_dims and in the segments of a java key) has been received
\* with the stamp of the service that was queried
C11_Witness ==
    /\ \E w \in DOMAIN workers :
        /\ workers[w].rawResponse = OwnStampDims
        /\ \E m \in BagToSet(received) : StampedBy(m, w)
    /\ \E w \in DOMAIN workers :
        /\ workers[w].rawResponse = OwnStampKey
        /\ \E m \in BagToSet(received) : StampedBy(m, w)


\* C12: in Collect no service query begins before the discovery mapping
\* has been read and parsed: every worker belongs to a cycle whose read
\* and parse are done and succeeded; a cycle whose read or parse failed
\* starts no worker, performs no query and emits no metric.
C12_NoWorkerWithoutMapping ==
    /\ Len(collect.reads) = collect.cycles
    /\ \A w \in DOMAIN workers :
        /\ workers[w].cycle \in DOMAIN collect.reads
        /\ collect.reads[workers[w].cycle] = "ok"
    /\ (\A c \in DOMAIN collect.reads : collect.reads[c] # "ok") =>
           workers = <<>> /\ received = EmptyBag
    /\ (collect.cycles > 0 /\ collect.reads[collect.cycles] # "ok") =>
           collect.pc = "idle" /\ collect.left = {}

\* C12: the read of the file or the parse of its content has failed in the
\* latest cycle, Collect has returned, and the cycle has no worker
C12_Witness ==
    /\ \E c \in DOMAIN collect.reads :
        /\ collect.reads[c] \in {"readfail", "parsefail"}
        /\ c = collect.cycles
        /\ collect.pc = "idle"
        /\ \A w \in DOMAIN workers : workers[w].cycle # c


\* worker w has returned from queryEndpoint
Queried(w) == workers[w].pc # "query"

\* C13: queryEndpoint releases the response body on every exit path on
\* which a response was obtained - success, a status other than 200, a
\* failed read of the body, an error returned together with a response:
\* when it has returned, the body has been drained and closed exactly
\* once, and nothing was closed when there was no response.
C13_BodyClosedOnce ==
    \A w \in DOMAIN workers :
        Queried(w) =>
            workers[w].closed = IF workers[w].rsp.rsp THEN 1 ELSE 0

\* C13: one worker's read of the body has failed and another worker got
\* an error together with a response; both bodies are closed
C13_Witness ==
    /\ \E w \in DOMAIN workers :
           /\ Queried(w) /\ workers[w].rsp.readErr /\ ~workers[w].rsp.err
           /\ workers[w].log = "Failed to query endpoint" /\ workers[w].closed = 1
    /\ \E w \in DOMAIN workers :
           /\ Queried(w) /\ workers[w].rsp.rsp /\ workers[w].rsp.err
           /\ workers[w].log = "Failed to query endpoint" /\ workers[w].closed = 1


\* the flattener has returned
Flattened == flat.queue = <<>> /\ ~flat.panicked

\* C14: the metrics the flattener returns are a function of the input tree
\* alone, whatever the order in which the keys of each mapping are visited:
\* the result of a run is the result of every run on the same tree; and
\* the typed node {"count":5,"type":"counter"} at path a.b yields exactly
\* one metric, a.b with value 5.
C14_ResultIsFunctionOfTree ==
    Flattened =>
        /\ parseNestedMetricMaps(tree) = {Ok(flat.results)}
        /\ tree = NestedOfA.m =>
               /\ BagCardinality(flat.results) = 1
               /\ \A m \in BagToSet(flat.results) : m.name = "a.b" /\ m.value = 5


\* the mappings of a tree that every visiting order reaches: the root, and
\* the children of a reached mapping all of whose values are mappings
RECURSIVE ReachedNodes(_, _)
ReachedNodes(node, path) ==
    {[path |-> path, map |-> node]}
    \cup IF \A k \in DOMAIN node : IsMap(node[k])
         THEN UNION {ReachedNodes(node[k].m, Append(path, k)) : k \in DOMAIN node}
         ELSE {}

\* the node has a type field that names none of the four types
UnknownType(node) ==
    /\ "type" \in DOMAIN node
    /\ ~IsMap(node["type"])
    /\ ~(node["type"].t = "str"
         /\ node["type"].s \in {"gauge", "histogram", "counter", "meter"})

\* rule 3: the leaf gauge of the numeric child k of the node at path
LeafGauge(path, k, value) ==
    [name |-> Join(Append(path, k), "."), mtype |-> MetricTypeGauge,
     value |-> value.v, dims |-> ("rollup" :> "value")]

\* C15: a node with a terminal value whose type field is none of gauge,
\* histogram, counter and meter - another string, or a value that is no
\* string - is extracted as leaf gauges: the flattener does not crash,
\* every numeric child key k of the node yields the Gauge
\* <joined path>.<k> with rollup=value, and no metric is named by the
\* path of the node alone as the rate-style extraction names it.
C15_UnknownTypeIsLeafGauges ==
    (Flattened \/ flat.panicked) =>
        \A n \in ReachedNodes(tree, <<>>) :
            UnknownType(n.map) =>
                /\ ~flat.panicked
                /\ \A k \in DOMAIN n.map :
                       n.map[k].t = "num" =>
                           CopiesIn(LeafGauge(n.path, k, n.map[k]), flat.results) = 1
                /\ \A m \in BagToSet(flat.results) : m.name # Join(n.path, ".")


\* the workers a run can have: at most one per service and cycle
WorkerIds == 1..(2 * MaxCycles)

\* worker w has parsed its response and holds metrics to send
Sending(w) == w \in DOMAIN workers /\ workers[w].pc = "send"

\* worker w has returned with nothing left to send
Finished(w) ==
    w \in DOMAIN workers /\ workers[w].pc = "done" /\ workers[w].metrics = EmptyBag

\* C16: with a consumer that keeps receiving, every worker whose query and
\* parse succeeded and that holds metrics to send eventually terminates
\* with each of them received from the stream.
C16_SendersFinish == \A w \in WorkerIds : Sending(w) ~> Finished(w)


\* C17: Collect never waits for its workers: once in its loop it starts a
\* worker for every service of the mapping and returns, in every
\* interleaving with the workers and even when no consumer ever receives
\* from the stream.
C17_CollectReturns == (collect.pc = "loop") ~> (collect.pc = "idle")

=============================================================================
